---- MODULE Spec2Model ----
(***************************************************************************)
(* Model of consensus-algorithms-edu: six consensus strategies (pow, pos,  *)
(* dpos, pbft, raft, paxos), each a Go package with its own Block,         *)
(* Blockchain and operations over a hash-chained ledger.                   *)
(*                                                                         *)
(* One behaviour follows one ledger of one strategy: Init is the state     *)
(* right after the strategy's constructor, and every action is one public  *)
(* operation run to completion (the code is single-threaded).              *)
(*                                                                         *)
(* Go strings are TLA+ strings; the block's hashed record is built by the  *)
(* same concatenation the code performs.                                   *)
(***************************************************************************)
EXTENDS Integers, Sequences, FiniteSets, TLC

VARIABLES
    strategy,    \* which package's Blockchain this behaviour follows
    pc,          \* "ready", or "panic" once an operation hit a Go runtime panic
    Blocks,      \* Blockchain.Blocks
    Nodes,       \* Blockchain.Nodes (pbft, raft, paxos)
    Leader,      \* raft Blockchain.Leader: position in Nodes, or NilNode
    Validators,  \* pos Blockchain.Validators
    Stakes,      \* pos Blockchain.Stakes
    Delegates,   \* dpos Blockchain.Delegates
    Voters,      \* dpos Blockchain.Voters
    clock,       \* the wall clock read by time.Now()
    calls,       \* history: the block-producing calls that ran to completion
    round,       \* history: the broadcast of the last pbft, raft or paxos round
    args,        \* the arguments of the one call a function-level specification makes
    result,      \* what that call returned
    commits,     \* history: the number of direct Node.CommitBlock / CommitProposal calls
    digits       \* SHA-256 as far as mining reads it: for each digest the loop can
                 \* meet, whether its first `difficulty` hex digits equal `target`

vars == <<strategy, pc, Blocks, Nodes, Leader, Validators, Stakes,
          Delegates, Voters, clock, calls, round, args, result, commits, digits>>

-----------------------------------------------------------------------------
(* Bounds *)

MaxNodes == 5
MaxCalls == 2
MaxClock == 1
MaxStake == 2
MaxProposalID == 2
MaxQuorumTotal == 10
MaxPaxosNodes == 3
MaxProposals == 2
MaxCommits == 1
MaxRaftNodes == 3
MaxNonce == 3

(* Inputs *)

DataValues == {"tx1", "tx2"}
PosNames == {"Alice", "Bob"}
DposTargets == {"Alice", "Bob", "Zed"}
VoterNames == {"Voter1", "Voter2"}
TableVoters == {"Voter1", "Voter2", "Voter3"}

NilNode == 0
NoRound == [ran |-> FALSE, approvals |-> 0, total |-> 0, passed |-> FALSE]
NoCall == [fn |-> "none"]
Panic == [panic |-> TRUE]
IsPanic(r) == "panic" \in DOMAIN r

-----------------------------------------------------------------------------
(* Shared library behaviour *)

\* strconv.Itoa
Itoa(i) == ToString(i)

\* time.Now().String() at clock reading t
TimeString(t) == "T" \o ToString(t)

\* sha256 followed by fmt.Sprintf("%x"): the digest of the hashed string, a
\* fixed injective function of it. Its hex digits are not computed here: the
\* digest is the string it was taken of, marked as a digest.
SHA256(s) == "sha256(" \o s \o ")"

\* the string is a digest SHA256 returned
IsDigest(h) == Len(h) >= 7 /\ SubSeq(h, 1, 7) = "sha256("

\* no digest's leading digits known: the value of `digits` where nothing is mined
NoDigits == [h \in {} |-> FALSE]

\* s[:n] of Go, defined when n <= len(s)
Prefix(s, n) == SubSeq(s, 1, n)

\* All orders in which the elements of a finite set can be enumerated
Perms(S) ==
    {f \in [1..Cardinality(S) -> S] : \A i, j \in 1..Cardinality(S) : i # j => f[i] # f[j]}

\* Successive readings of the clock, from reading c on: n non-decreasing times
Readings(c, n) ==
    {ts \in [1..n -> c..MaxClock] : \A i \in 1..n : \A j \in 1..n : i <= j => ts[i] <= ts[j]}

Last(s) == s[Len(s)]

-----------------------------------------------------------------------------
(* Package pbft *)

pbft_CalculateHash(b) ==
    SHA256(Itoa(b.Index) \o b.Timestamp \o b.Data \o b.PrevHash)

\* NewBlock taking the hash before the timestamp is stored
pbft_NewBlock_HashBeforeTimestamp(data, prevHash, index, now) ==
    LET block == [Index |-> index, Timestamp |-> "", Data |-> data,
                  PrevHash |-> prevHash, Hash |-> ""]
    IN  [block EXCEPT !.Hash = pbft_CalculateHash(block), !.Timestamp = now]

pbft_NewBlock(data, prevHash, index, now) ==
    LET block == [Index |-> index, Timestamp |-> now, Data |-> data,
                  PrevHash |-> prevHash, Hash |-> ""]
    IN  [block EXCEPT !.Hash = pbft_CalculateHash(block)]

\* AddBlock overwriting the tip instead of growing the slice
pbft_AddBlock_ReplacesTip(blocks, block) ==
    Append(SubSeq(blocks, 1, Len(blocks) - 1), block)

pbft_AddBlock(blocks, block) == Append(blocks, block)

pbft_NewBlockchain(now) ==
    LET genesisBlock == pbft_NewBlock("Genesis Block", "", 0, now)
    IN  [Blocks |-> <<genesisBlock>>, Nodes |-> <<>>]

pbft_ProposeBlock(blocks, data, now) ==
    LET prevBlock == Last(blocks)
    IN  pbft_NewBlock(data, prevBlock.Hash, prevBlock.Index + 1, now)

pbft_VerifyBlock(blocks, block) ==
    LET prevBlock == Last(blocks)
    IN  IF block.PrevHash = prevBlock.Hash
        THEN block.Hash = pbft_CalculateHash(block)
        ELSE FALSE

\* the approval loop skipping the primary
pbft_Approvals_PrimaryAbstains(blocks, nodes, block) ==
    Cardinality({i \in DOMAIN nodes : ~nodes[i].IsPrimary /\ pbft_VerifyBlock(blocks, block)})

pbft_Approvals(blocks, nodes, block) ==
    Cardinality({i \in DOMAIN nodes : pbft_VerifyBlock(blocks, block)})

\* the threshold test that ends BroadcastBlock
pbft_QuorumReached(approvals, totalNodes) == approvals >= (2 * totalNodes) \div 3

pbft_BroadcastBlock(blocks, nodes, block) ==
    LET approvals == pbft_Approvals(blocks, nodes, block)
        totalNodes == Len(nodes)
    IN  pbft_QuorumReached(approvals, totalNodes)

\* Node.CommitBlock: every node holds a pointer to the one shared Blockchain
pbft_CommitBlock(blocks, block) == pbft_AddBlock(blocks, block)

\* the commit loop of RunPBFT over the nodes from position i on
RECURSIVE pbft_CommitAll(_, _, _, _)
pbft_CommitAll(blocks, nodes, block, i) ==
    IF i > Len(nodes) THEN blocks
    ELSE pbft_CommitAll(pbft_CommitBlock(blocks, block), nodes, block, i + 1)

pbft_RunPBFT(blocks, nodes, data, now) ==
    IF Len(nodes) = 0 THEN Panic
    ELSE LET newBlock == pbft_ProposeBlock(blocks, data, now)
         IN  IF pbft_BroadcastBlock(blocks, nodes, newBlock)
             THEN [Blocks |-> pbft_CommitAll(blocks, nodes, newBlock, 1)]
             ELSE [Blocks |-> blocks]

pbft_NewNode(id, isPrimary) == [ID |-> id, IsPrimary |-> isPrimary, State |-> ""]

pbft_NewPBFTNetwork(size, now) ==
    LET blockchain == pbft_NewBlockchain(now)
    IN  [blockchain EXCEPT !.Nodes = [i \in 1..size |-> pbft_NewNode(i - 1, i - 1 = 0)]]

-----------------------------------------------------------------------------
(* Package raft *)

raft_CalculateHash(b) ==
    SHA256(Itoa(b.Index) \o b.Timestamp \o b.Data \o b.PrevHash)

raft_NewBlock(data, prevHash, index, now) ==
    LET block == [Index |-> index, Timestamp |-> now, Data |-> data,
                  PrevHash |-> prevHash, Hash |-> ""]
    IN  [block EXCEPT !.Hash = raft_CalculateHash(block)]

raft_AddBlock(blocks, block) == Append(blocks, block)

raft_NewBlockchain(now) ==
    LET genesisBlock == raft_NewBlock("Genesis Block", "", 0, now)
    IN  [Blocks |-> <<genesisBlock>>, Nodes |-> <<>>, Leader |-> NilNode]

raft_ProposeBlock(blocks, data, now) ==
    LET prevBlock == Last(blocks)
    IN  raft_NewBlock(data, prevBlock.Hash, prevBlock.Index + 1, now)

raft_VerifyBlock(blocks, block) ==
    LET prevBlock == Last(blocks)
    IN  IF block.PrevHash = prevBlock.Hash
        THEN block.Hash = raft_CalculateHash(block)
        ELSE FALSE

raft_Approvals(blocks, nodes, block) ==
    Cardinality({i \in DOMAIN nodes : raft_VerifyBlock(blocks, block)})

\* the threshold test letting a tie through
raft_QuorumReached_AdmitsTie(approvals, totalNodes) == approvals >= totalNodes \div 2

\* the threshold test that ends BroadcastBlock
raft_QuorumReached(approvals, totalNodes) == approvals > totalNodes \div 2

raft_BroadcastBlock(blocks, nodes, block) ==
    LET approvals == raft_Approvals(blocks, nodes, block)
        totalNodes == Len(nodes)
    IN  raft_QuorumReached(approvals, totalNodes)

raft_CommitBlock(blocks, block) == raft_AddBlock(blocks, block)

RECURSIVE raft_CommitAll(_, _, _, _)
raft_CommitAll(blocks, nodes, block, i) ==
    IF i > Len(nodes) THEN blocks
    ELSE raft_CommitAll(raft_CommitBlock(blocks, block), nodes, block, i + 1)

\* VoteFor granting the vote to the node's own candidacy only
raft_VoteFor_OnlySelf(node, candidateID) == node.ID = candidateID

raft_VoteFor(node, candidateID) == TRUE

\* the threshold test of RequestVote
raft_Elected(votes, totalNodes) == votes > totalNodes \div 2

\* the end of RequestVote on nodes[i], once the votes are counted: the new
\* Nodes and Leader, and the result
raft_Decide(nodes, leader, i, votes, totalNodes) ==
    IF raft_Elected(votes, totalNodes)
    THEN [Nodes |-> [nodes EXCEPT ![i].IsLeader = TRUE], Leader |-> i, result |-> TRUE]
    ELSE [Nodes |-> nodes, Leader |-> leader, result |-> FALSE]

\* Node.RequestVote on nodes[i]
raft_RequestVote(nodes, leader, i) ==
    LET votes == Cardinality({j \in DOMAIN nodes : raft_VoteFor(nodes[j], nodes[i].ID)})
        totalNodes == Len(nodes)
    IN  raft_Decide(nodes, leader, i, votes, totalNodes)

\* Node.Lead without the test of n.IsLeader
raft_Lead_SkipsRoleCheck(blocks, nodes, i, data, now) ==
    IF i = NilNode THEN Panic
    ELSE LET newBlock == raft_ProposeBlock(blocks, data, now)
         IN  IF raft_BroadcastBlock(blocks, nodes, newBlock)
             THEN [Blocks |-> raft_CommitAll(blocks, nodes, newBlock, 1), led |-> TRUE]
             ELSE [Blocks |-> blocks, led |-> TRUE]

\* Node.Lead on nodes[i]; i = NilNode is a call through a nil *Node
raft_Lead(blocks, nodes, i, data, now) ==
    IF i = NilNode THEN Panic
    ELSE IF nodes[i].IsLeader
         THEN LET newBlock == raft_ProposeBlock(blocks, data, now)
              IN  IF raft_BroadcastBlock(blocks, nodes, newBlock)
                  THEN [Blocks |-> raft_CommitAll(blocks, nodes, newBlock, 1), led |-> TRUE]
                  ELSE [Blocks |-> blocks, led |-> TRUE]
         ELSE [Blocks |-> blocks, led |-> FALSE]

raft_NewNode(id) == [ID |-> id, IsLeader |-> FALSE]

raft_NewRaftNetwork(size, now) ==
    LET blockchain == raft_NewBlockchain(now)
    IN  [blockchain EXCEPT !.Nodes = [i \in 1..size |-> raft_NewNode(i - 1)]]

-----------------------------------------------------------------------------
(* Package paxos *)

paxos_CalculateHash(b) ==
    SHA256(Itoa(b.Index) \o b.Timestamp \o b.Data \o b.PrevHash)

paxos_NewBlock(data, prevHash, index, now) ==
    LET block == [Index |-> index, Timestamp |-> now, Data |-> data,
                  PrevHash |-> prevHash, Hash |-> ""]
    IN  [block EXCEPT !.Hash = paxos_CalculateHash(block)]

paxos_AddBlock(blocks, block) == Append(blocks, block)

paxos_NewBlockchain(now) ==
    LET genesisBlock == paxos_NewBlock("Genesis Block", "", 0, now)
    IN  [Blocks |-> <<genesisBlock>>, Nodes |-> <<>>]

\* Node.Propose on the Node value n: the Node as changed, and the proposal
paxos_Propose(n, data, proposalID) ==
    LET proposal == [ProposalID |-> proposalID, Data |-> data, Accepted |-> FALSE]
    IN  [node |-> [n EXCEPT !.Proposals = Append(@, proposal)], proposal |-> proposal]

\* AcceptProposal matching on the proposal's data
paxos_AcceptProposal_MatchesData(n, proposal) ==
    \E k \in DOMAIN n.Proposals : n.Proposals[k].Data = proposal.Data

\* Node.AcceptProposal: the Accepted flag is set on the loop's copy only
paxos_AcceptProposal(n, proposal) ==
    \E k \in DOMAIN n.Proposals : n.Proposals[k].ProposalID = proposal.ProposalID

paxos_Approvals(nodes, proposal) ==
    Cardinality({i \in DOMAIN nodes : paxos_AcceptProposal(nodes[i], proposal)})

\* the threshold test that ends BroadcastProposal
paxos_QuorumReached(approvals, totalNodes) == approvals > totalNodes \div 2

paxos_BroadcastProposal(nodes, proposal) ==
    LET approvals == paxos_Approvals(nodes, proposal)
        totalNodes == Len(nodes)
    IN  paxos_QuorumReached(approvals, totalNodes)

paxos_CommitProposal(blocks, proposal, now) ==
    LET prevBlock == Last(blocks)
        newBlock == paxos_NewBlock(proposal.Data, prevBlock.Hash, prevBlock.Index + 1, now)
    IN  paxos_AddBlock(blocks, newBlock)

\* the commit loop of RunPaxos from position i on; ts[i] is node i's clock reading
RECURSIVE paxos_CommitAll(_, _, _, _, _)
paxos_CommitAll(blocks, nodes, proposal, ts, i) ==
    IF i > Len(nodes) THEN blocks
    ELSE paxos_CommitAll(paxos_CommitProposal(blocks, proposal, TimeString(ts[i])),
                         nodes, proposal, ts, i + 1)

\* RunPaxos running the commit loop whatever the broadcast returned
paxos_RunPaxos_CommitsRegardless(blocks, nodes, data, proposalID, ts) ==
    IF Len(nodes) = 0 THEN Panic
    ELSE LET proposer == nodes[1]
             proposed == paxos_Propose(proposer, data, proposalID)
             proposal == proposed.proposal
         IN  [Blocks |-> paxos_CommitAll(blocks, nodes, proposal, ts, 1),
              Nodes |-> nodes, committed |-> TRUE]

\* RunPaxos: proposer is a copy of bc.Nodes[0]; Propose appends to the copy's
\* list, and the broadcast then walks bc.Nodes
paxos_RunPaxos(blocks, nodes, data, proposalID, ts) ==
    IF Len(nodes) = 0 THEN Panic
    ELSE LET proposer == nodes[1]
             proposed == paxos_Propose(proposer, data, proposalID)
             proposal == proposed.proposal
         IN  IF paxos_BroadcastProposal(nodes, proposal)
             THEN [Blocks |-> paxos_CommitAll(blocks, nodes, proposal, ts, 1),
                   Nodes |-> nodes, committed |-> TRUE]
             ELSE [Blocks |-> blocks, Nodes |-> nodes, committed |-> FALSE]

paxos_NewNode(id) == [ID |-> id, Proposals |-> <<>>]

paxos_NewPaxosNetwork(size, now) ==
    LET blockchain == paxos_NewBlockchain(now)
    IN  [blockchain EXCEPT !.Nodes = [i \in 1..size |-> paxos_NewNode(i - 1)]]

-----------------------------------------------------------------------------
(* Package pow *)

difficulty == 4
target == "0000"

pow_CalculateHash(b) ==
    SHA256(Itoa(b.Index) \o b.Timestamp \o b.Data \o b.PrevHash \o Itoa(b.Nonce))

\* the digests of the candidate b under each nonce the loop can reach
pow_Digests(b) == {pow_CalculateHash([b EXCEPT !.Nonce = n]) : n \in 0..MaxNonce}

\* h[:difficulty] != target for len(h) >= difficulty: a digest's leading hex
\* digits are the ones SHA-256 gives it, any other string's are its own
pow_MissesTarget(h) ==
    IF IsDigest(h) THEN ~digits[h] ELSE Prefix(h, difficulty) # target

\* the loop has not ended within MaxNonce increments
Unfinished == [unfinished |-> TRUE]
IsUnfinished(r) == "unfinished" \in DOMAIN r

\* the for loop of MineBlock: its condition b.Hash[:difficulty] != target
\* panics on a hash shorter than difficulty
RECURSIVE pow_MineLoop(_)
pow_MineLoop(b) ==
    IF Len(b.Hash) < difficulty THEN Panic
    ELSE IF b.Nonce > MaxNonce THEN Unfinished
    ELSE IF pow_MissesTarget(b.Hash)
         THEN LET next == [b EXCEPT !.Nonce = @ + 1]
              IN  pow_MineLoop([next EXCEPT !.Hash = pow_CalculateHash(next)])
         ELSE b

\* MineBlock running the loop body once before the first test
pow_MineBlock_IncrementsFirst(b) ==
    LET next == [b EXCEPT !.Nonce = @ + 1]
    IN  pow_MineLoop([next EXCEPT !.Hash = pow_CalculateHash(next)])

\* Block.MineBlock
pow_MineBlock(b) == pow_MineLoop(b)

pow_NewBlock(data, prevHash, index, now) ==
    LET block == [Index |-> index, Timestamp |-> now, Data |-> data,
                  PrevHash |-> prevHash, Hash |-> "", Nonce |-> 0]
    IN  pow_MineBlock(block)

pow_AddBlock(blocks, data, now) ==
    IF Len(blocks) = 0 THEN Panic
    ELSE LET prevBlock == Last(blocks)
             newBlock == pow_NewBlock(data, prevBlock.Hash, prevBlock.Index + 1, now)
         IN  IF IsPanic(newBlock) \/ IsUnfinished(newBlock) THEN newBlock
             ELSE [Blocks |-> Append(blocks, newBlock)]

pow_NewBlockchain(now) ==
    LET genesisBlock == pow_NewBlock("Genesis Block", "", 0, now)
    IN  IF IsPanic(genesisBlock) \/ IsUnfinished(genesisBlock) THEN genesisBlock
        ELSE [Blocks |-> <<genesisBlock>>]

-----------------------------------------------------------------------------
(* Package pos *)

pos_CalculateHash(b) ==
    SHA256(Itoa(b.Index) \o b.Timestamp \o b.Data \o b.PrevHash \o b.Validator)

pos_NewBlock(data, prevHash, index, validator, now) ==
    LET block == [Index |-> index, Timestamp |-> now, Data |-> data,
                  PrevHash |-> prevHash, Hash |-> "", Validator |-> validator]
    IN  [block EXCEPT !.Hash = pos_CalculateHash(block)]

RECURSIVE pos_SumOver(_, _)
pos_SumOver(stakes, keys) ==
    IF keys = {} THEN 0
    ELSE LET k == CHOOSE x \in keys : TRUE
         IN  stakes[k] + pos_SumOver(stakes, keys \ {k})

pos_TotalStake(stakes) == pos_SumOver(stakes, DOMAIN stakes)

\* the second loop of SelectValidator, over the map in iteration order `order`
RECURSIVE pos_Walk(_, _, _, _, _)
pos_Walk(stakes, order, pick, i, runningTotal) ==
    IF i > Len(order) THEN ""
    ELSE LET total == runningTotal + stakes[order[i]]
         IN  IF total > pick THEN order[i]
             ELSE pos_Walk(stakes, order, pick, i + 1, total)

\* SelectValidator comparing runningTotal >= pick
pos_SelectValidator_InclusiveBound(stakes, pick, order) ==
    IF pos_TotalStake(stakes) <= 0 THEN Panic
    ELSE [validator |-> pos_Walk(stakes, order, pick - 1, 1, 0)]

\* SelectValidator with rand.Intn returning pick and the map walked in `order`;
\* rand.Intn panics on a total that is not positive
pos_SelectValidator(stakes, pick, order) ==
    IF pos_TotalStake(stakes) <= 0 THEN Panic
    ELSE [validator |-> pos_Walk(stakes, order, pick, 1, 0)]

\* AddBlock linking the new block to the tip's predecessor instead of the tip
pos_AddBlock_LinksPredecessor(blocks, stakes, data, pick, order, now) ==
    LET prevBlock == Last(blocks)
        selected == pos_SelectValidator(stakes, pick, order)
    IN  IF IsPanic(selected) THEN Panic
        ELSE LET newBlock == pos_NewBlock(data, prevBlock.PrevHash, prevBlock.Index + 1,
                                          selected.validator, now)
             IN  [Blocks |-> Append(blocks, newBlock)]

pos_AddBlock(blocks, stakes, data, pick, order, now) ==
    LET prevBlock == Last(blocks)
        selected == pos_SelectValidator(stakes, pick, order)
    IN  IF IsPanic(selected) THEN Panic
        ELSE LET newBlock == pos_NewBlock(data, prevBlock.Hash, prevBlock.Index + 1,
                                          selected.validator, now)
             IN  [Blocks |-> Append(blocks, newBlock)]

pos_NewBlockchain(validators, stakes, now) ==
    IF Len(validators) = 0 THEN Panic
    ELSE LET genesisBlock == pos_NewBlock("Genesis Block", "", 0, validators[1], now)
         IN  [Blocks |-> <<genesisBlock>>, Validators |-> validators, Stakes |-> stakes]

-----------------------------------------------------------------------------
(* Package dpos *)

dpos_CalculateHash(b) ==
    SHA256(Itoa(b.Index) \o b.Timestamp \o b.Data \o b.PrevHash \o b.Delegate)

dpos_NewBlock(data, prevHash, index, delegate, now) ==
    LET block == [Index |-> index, Timestamp |-> now, Data |-> data,
                  PrevHash |-> prevHash, Hash |-> "", Delegate |-> delegate]
    IN  [block EXCEPT !.Hash = dpos_CalculateHash(block)]

\* SelectDelegate with rand.Intn returning index; rand.Intn(0) panics
dpos_SelectDelegate(delegates, index) ==
    IF Len(delegates) = 0 THEN Panic
    ELSE [delegate |-> delegates[index + 1]]

\* AddBlock reusing the tip's index for the new block
dpos_AddBlock_ReusesIndex(blocks, delegates, data, index, now) ==
    LET prevBlock == Last(blocks)
        selected == dpos_SelectDelegate(delegates, index)
    IN  IF IsPanic(selected) THEN Panic
        ELSE LET newBlock == dpos_NewBlock(data, prevBlock.Hash, prevBlock.Index,
                                           selected.delegate, now)
             IN  [Blocks |-> Append(blocks, newBlock)]

\* AddBlock tagging the new block with the producer of the tip
dpos_AddBlock_TagsTipProducer(blocks, delegates, data, index, now) ==
    LET prevBlock == Last(blocks)
        selected == dpos_SelectDelegate(delegates, index)
    IN  IF IsPanic(selected) THEN Panic
        ELSE LET newBlock == dpos_NewBlock(data, prevBlock.Hash, prevBlock.Index + 1,
                                           prevBlock.Delegate, now)
             IN  [Blocks |-> Append(blocks, newBlock)]

dpos_AddBlock(blocks, delegates, data, index, now) ==
    LET prevBlock == Last(blocks)
        selected == dpos_SelectDelegate(delegates, index)
    IN  IF IsPanic(selected) THEN Panic
        ELSE LET newBlock == dpos_NewBlock(data, prevBlock.Hash, prevBlock.Index + 1,
                                           selected.delegate, now)
             IN  [Blocks |-> Append(blocks, newBlock)]

dpos_NewBlockchain(delegates, voters, now) ==
    IF Len(delegates) = 0 THEN Panic
    ELSE LET genesisBlock == dpos_NewBlock("Genesis Block", "", 0, delegates[1], now)
         IN  [Blocks |-> <<genesisBlock>>, Delegates |-> delegates, Voters |-> voters]

\* Vote starting the table afresh with the one entry
dpos_Vote_ResetsTable(voters, voter, delegate) ==
    [v \in {voter} |-> delegate]

\* Vote keeping the entry a voter already has
dpos_Vote_KeepsFirstVote(voters, voter, delegate) ==
    IF voter \in DOMAIN voters THEN voters
    ELSE [v \in DOMAIN voters \cup {voter} |-> IF v = voter THEN delegate ELSE voters[v]]

dpos_Vote(voters, voter, delegate) ==
    [v \in DOMAIN voters \cup {voter} |-> IF v = voter THEN delegate ELSE voters[v]]

\* the votes map built by the first loop of CountVotes
dpos_Tally(voters) ==
    [d \in {voters[v] : v \in DOMAIN voters} |->
        Cardinality({v \in DOMAIN voters : voters[v] = d})]

\* CountVotes listing the keys of the votes map in one fixed order
dpos_CountVotes_WithoutShuffle(voters, order) ==
    LET votes == dpos_Tally(voters)
        fixed == CHOOSE o \in Perms(DOMAIN votes) : TRUE
    IN  [i \in 1..Cardinality(DOMAIN votes) |-> fixed[i]]

\* CountVotes: the keys of the votes map, in the order left by the map
\* iteration and rand.Shuffle
dpos_CountVotes(voters, order) ==
    LET votes == dpos_Tally(voters)
    IN  [i \in 1..Cardinality(DOMAIN votes) |-> order[i]]

dpos_Orders(voters) == Perms(DOMAIN dpos_Tally(voters))

-----------------------------------------------------------------------------
(* Initial states: the result of each package's constructor *)

Strategies == {"pow", "pos", "dpos", "pbft", "raft", "paxos"}
EmptyMap == [x \in {} |-> 0]
InitialDelegates == {<<"Alice">>, <<"Alice", "Bob">>}

\* the state of the ledger's owner after a constructor returned bc (or panicked)
Constructed(bc) ==
    IF IsPanic(bc) THEN pc = "panic" /\ Blocks = <<>> ELSE pc = "ready" /\ Blocks = bc.Blocks

InitPoW ==
    /\ strategy = "pow"
    /\ Constructed(pow_NewBlockchain(TimeString(0)))
    /\ Nodes = <<>> /\ Leader = NilNode
    /\ Validators = <<>> /\ Stakes = EmptyMap
    /\ Delegates = <<>> /\ Voters = EmptyMap

InitPoS ==
    /\ strategy = "pos"
    /\ \E stakes \in [PosNames -> 0..MaxStake] :
          LET bc == pos_NewBlockchain(<<"Alice", "Bob">>, stakes, TimeString(0))
          IN  /\ Constructed(bc)
              /\ Validators = bc.Validators
              /\ Stakes = bc.Stakes
    /\ Nodes = <<>> /\ Leader = NilNode
    /\ Delegates = <<>> /\ Voters = EmptyMap

InitDPoS ==
    /\ strategy = "dpos"
    /\ \E delegates \in InitialDelegates :
          LET bc == dpos_NewBlockchain(delegates, EmptyMap, TimeString(0))
          IN  /\ Constructed(bc)
              /\ Delegates = bc.Delegates
              /\ Voters = bc.Voters
    /\ Nodes = <<>> /\ Leader = NilNode
    /\ Validators = <<>> /\ Stakes = EmptyMap

InitPBFT ==
    /\ strategy = "pbft"
    /\ \E size \in 1..MaxNodes :
          LET bc == pbft_NewPBFTNetwork(size, TimeString(0))
          IN  Constructed(bc) /\ Nodes = bc.Nodes
    /\ Leader = NilNode
    /\ Validators = <<>> /\ Stakes = EmptyMap
    /\ Delegates = <<>> /\ Voters = EmptyMap

InitRaft ==
    /\ strategy = "raft"
    /\ \E size \in 1..MaxRaftNodes :
          LET bc == raft_NewRaftNetwork(size, TimeString(0))
          IN  Constructed(bc) /\ Nodes = bc.Nodes /\ Leader = bc.Leader
    /\ Validators = <<>> /\ Stakes = EmptyMap
    /\ Delegates = <<>> /\ Voters = EmptyMap

InitPaxos ==
    /\ strategy = "paxos"
    /\ \E size \in 1..MaxNodes :
          LET bc == paxos_NewPaxosNetwork(size, TimeString(0))
          IN  Constructed(bc) /\ Nodes = bc.Nodes
    /\ Leader = NilNode
    /\ Validators = <<>> /\ Stakes = EmptyMap
    /\ Delegates = <<>> /\ Voters = EmptyMap

Init ==
    /\ clock = 0
    /\ commits = 0 /\ digits = NoDigits
    /\ calls = <<>>
    /\ round = NoRound
    /\ args = NoCall
    /\ result = NoCall
    /\ (InitPoW \/ InitPoS \/ InitDPoS \/ InitPBFT \/ InitRaft \/ InitPaxos)

-----------------------------------------------------------------------------
(* Actions: one public operation each, run to completion *)

\* an operation that ended in a Go runtime panic
Crash ==
    /\ pc' = "panic"
    /\ UNCHANGED <<commits, digits, strategy, Blocks, Nodes, Leader, Validators, Stakes,
                   Delegates, Voters, clock, calls, round, args, result>>

\* an entry of the call history (ProposalID is 0 outside paxos)
Call(data, proposalID) == [Data |-> data, ProposalID |-> proposalID]

\* the values rand.Intn(n) can return (it panics for n <= 0 before returning)
Intn(n) == IF n > 0 THEN 0..(n - 1) ELSE {0}

\* Blockchain.AddBlock(data) of pow, pos and dpos
AddBlock ==
    /\ pc = "ready"
    /\ strategy \in {"pow", "pos", "dpos"}
    /\ Len(calls) < MaxCalls
    /\ \E data \in DataValues, t \in clock..MaxClock :
       \E pick \in Intn(IF strategy = "pos" THEN pos_TotalStake(Stakes) ELSE Len(Delegates)) :
       \E order \in Perms(DOMAIN Stakes) :
          LET r == CASE strategy = "pow" -> pow_AddBlock(Blocks, data, TimeString(t))
                     [] strategy = "pos" ->
                            pos_AddBlock(Blocks, Stakes, data, pick, order, TimeString(t))
                     [] OTHER -> dpos_AddBlock(Blocks, Delegates, data, pick, TimeString(t))
          IN  IF IsPanic(r) THEN Crash
              ELSE /\ ~IsUnfinished(r)
                   /\ Blocks' = r.Blocks
                   /\ calls' = Append(calls, Call(data, 0))
                   /\ clock' = t
                   /\ UNCHANGED <<commits, digits, strategy, pc, Nodes, Leader, Validators,
                                  Stakes, Delegates, Voters, round, args, result>>

\* dpos Blockchain.Vote(voter, delegate)
Vote ==
    /\ pc = "ready"
    /\ strategy = "dpos"
    /\ \E voter \in VoterNames, delegate \in DposTargets :
          Voters' = dpos_Vote(Voters, voter, delegate)
    /\ UNCHANGED <<commits, digits, strategy, pc, Blocks, Nodes, Leader, Validators, Stakes,
                   Delegates, clock, calls, round, args, result>>

\* dpos Blockchain.CountVotes()
CountVotes ==
    /\ pc = "ready"
    /\ strategy = "dpos"
    /\ \E order \in dpos_Orders(Voters) :
          Delegates' = dpos_CountVotes(Voters, order)
    /\ UNCHANGED <<commits, digits, strategy, pc, Blocks, Nodes, Leader, Validators, Stakes,
                   Voters, clock, calls, round, args, result>>

\* pbft Blockchain.RunPBFT(data)
RunPBFT ==
    /\ pc = "ready"
    /\ strategy = "pbft"
    /\ Len(calls) < MaxCalls
    /\ \E data \in DataValues, t \in clock..MaxClock :
          LET r == pbft_RunPBFT(Blocks, Nodes, data, TimeString(t))
              newBlock == pbft_ProposeBlock(Blocks, data, TimeString(t))
          IN  IF IsPanic(r) THEN Crash
              ELSE /\ Blocks' = r.Blocks
                   /\ calls' = Append(calls, Call(data, 0))
                   /\ round' = [ran |-> TRUE,
                                approvals |-> pbft_Approvals(Blocks, Nodes, newBlock),
                                total |-> Len(Nodes),
                                passed |-> pbft_BroadcastBlock(Blocks, Nodes, newBlock)]
                   /\ clock' = t
                   /\ UNCHANGED <<commits, digits, strategy, pc, Nodes, Leader, Validators, Stakes,
                                  Delegates, Voters, args, result>>

\* raft bc.Nodes[i].RequestVote()
RequestVote ==
    /\ pc = "ready"
    /\ strategy = "raft"
    /\ \E i \in DOMAIN Nodes :
          LET r == raft_RequestVote(Nodes, Leader, i)
          IN  Nodes' = r.Nodes /\ Leader' = r.Leader
    /\ UNCHANGED <<commits, digits, strategy, pc, Blocks, Validators, Stakes, Delegates, Voters,
                   clock, calls, round, args, result>>

\* Node.Lead(data) on the node at position i (NilNode: a nil receiver)
LeadOn(i) ==
    \E data \in DataValues, t \in clock..MaxClock :
        LET r == raft_Lead(Blocks, Nodes, i, data, TimeString(t))
            newBlock == raft_ProposeBlock(Blocks, data, TimeString(t))
        IN  IF IsPanic(r) THEN Crash
            ELSE /\ Blocks' = r.Blocks
                 /\ calls' = IF r.led THEN Append(calls, Call(data, 0)) ELSE calls
                 /\ round' = IF r.led
                             THEN [ran |-> TRUE,
                                   approvals |-> raft_Approvals(Blocks, Nodes, newBlock),
                                   total |-> Len(Nodes),
                                   passed |-> raft_BroadcastBlock(Blocks, Nodes, newBlock)]
                             ELSE round
                 /\ clock' = IF r.led THEN t ELSE clock
                 /\ UNCHANGED <<commits, digits, strategy, pc, Nodes, Leader, Validators, Stakes,
                                Delegates, Voters, args, result>>

\* raft bc.Nodes[i].Lead(data)
Lead ==
    /\ pc = "ready"
    /\ strategy = "raft"
    /\ Len(calls) < MaxCalls
    /\ \E i \in DOMAIN Nodes : LeadOn(i)

\* raft bc.Leader.Lead(data)
LeaderLead ==
    /\ pc = "ready"
    /\ strategy = "raft"
    /\ Len(calls) < MaxCalls
    /\ LeadOn(Leader)

\* paxos Blockchain.RunPaxos(data, proposalID)
RunPaxos ==
    /\ pc = "ready"
    /\ strategy = "paxos"
    /\ Len(calls) < MaxCalls
    /\ \E data \in DataValues, proposalID \in 1..MaxProposalID :
       \E ts \in Readings(clock, Len(Nodes)) :
          LET r == paxos_RunPaxos(Blocks, Nodes, data, proposalID, ts)
              proposal == paxos_Propose(Nodes[1], data, proposalID).proposal
          IN  IF IsPanic(r) THEN Crash
              ELSE /\ Blocks' = r.Blocks
                   /\ Nodes' = r.Nodes
                   /\ calls' = Append(calls, Call(data, proposalID))
                   /\ round' = [ran |-> TRUE,
                                approvals |-> paxos_Approvals(Nodes, proposal),
                                total |-> Len(Nodes),
                                passed |-> paxos_BroadcastProposal(Nodes, proposal)]
                   /\ clock' = IF r.committed THEN Last(ts) ELSE clock
                   /\ UNCHANGED <<commits, digits, strategy, pc, Leader, Validators, Stakes,
                                  Delegates, Voters, args, result>>

\* the blocks handed to Node.CommitBlock at clock reading t: the one
\* ProposeBlock("tx1") returns, and one NewBlock built on a link of the caller's
CommitCandidates(t) ==
    IF strategy = "pbft"
    THEN {pbft_ProposeBlock(Blocks, "tx1", TimeString(t)),
          pbft_NewBlock("tx1", "zz", 7, TimeString(t))}
    ELSE {raft_ProposeBlock(Blocks, "tx1", TimeString(t)),
          raft_NewBlock("tx1", "zz", 7, TimeString(t))}

\* pbft and raft bc.Nodes[i].CommitBlock(block), called on its own
CommitBlock ==
    /\ pc = "ready"
    /\ strategy \in {"pbft", "raft"}
    /\ commits < MaxCommits
    /\ \E i \in DOMAIN Nodes, t \in clock..MaxClock :
       \E block \in CommitCandidates(t) :
          /\ Blocks' = IF strategy = "pbft" THEN pbft_CommitBlock(Blocks, block)
                        ELSE raft_CommitBlock(Blocks, block)
          /\ clock' = t
    /\ commits' = commits + 1
    /\ UNCHANGED <<digits, strategy, pc, Nodes, Leader, Validators, Stakes,
                   Delegates, Voters, calls, round, args, result>>

\* paxos bc.Nodes[i].CommitProposal(proposal), called on its own
CommitProposal ==
    /\ pc = "ready"
    /\ strategy = "paxos"
    /\ commits < MaxCommits
    /\ \E i \in DOMAIN Nodes, t \in clock..MaxClock :
       \E data \in DataValues, proposalID \in 1..MaxProposalID :
          LET proposal == [ProposalID |-> proposalID, Data |-> data, Accepted |-> FALSE]
          IN  /\ Blocks' = paxos_CommitProposal(Blocks, proposal, TimeString(t))
              /\ clock' = t
    /\ commits' = commits + 1
    /\ UNCHANGED <<digits, strategy, pc, Nodes, Leader, Validators, Stakes,
                   Delegates, Voters, calls, round, args, result>>

Next ==
    \/ AddBlock
    \/ Vote
    \/ CountVotes
    \/ RunPBFT
    \/ RequestVote
    \/ Lead
    \/ LeaderLead
    \/ RunPaxos
    \/ CommitBlock
    \/ CommitProposal

Spec == Init /\ [][Next]_vars

-----------------------------------------------------------------------------
(* Function-level specification: one call of Blockchain.AddBlock(block) of   *)
(* pbft, raft or paxos on a ledger the package built, with any record        *)

ConsensusNewBlock(data, prevHash, index, now) ==
    CASE strategy = "pbft" -> pbft_NewBlock(data, prevHash, index, now)
      [] strategy = "raft" -> raft_NewBlock(data, prevHash, index, now)
      [] OTHER -> paxos_NewBlock(data, prevHash, index, now)

ConsensusAddBlock(blocks, block) ==
    CASE strategy = "pbft" -> pbft_AddBlock(blocks, block)
      [] strategy = "raft" -> raft_AddBlock(blocks, block)
      [] OTHER -> paxos_AddBlock(blocks, block)

\* the ledgers to append to: genesis alone, or genesis and one record built on it
AppendLedgers ==
    LET genesis == ConsensusNewBlock("Genesis Block", "", 0, TimeString(0))
    IN  {<<genesis>>} \cup
        {ConsensusAddBlock(<<genesis>>, ConsensusNewBlock(d, genesis.Hash, 1, TimeString(t))) :
            d \in DataValues, t \in 0..MaxClock}

\* the records handed to AddBlock: built by NewBlock on any of these links
AppendCandidates(blocks) ==
    {ConsensusNewBlock(d, prevHash, index, TimeString(MaxClock)) :
        d \in DataValues,
        prevHash \in {Last(blocks).Hash, blocks[1].Hash, ""},
        index \in {Last(blocks).Index, Last(blocks).Index + 1, Last(blocks).Index + 2}}

InitAppend ==
    /\ strategy \in {"pbft", "raft", "paxos"}
    /\ pc = "ready"
    /\ Blocks \in AppendLedgers
    /\ \E block \in AppendCandidates(Blocks) :
          args = [fn |-> "AddBlock", ledger |-> Blocks, block |-> block]
    /\ result = NoCall
    /\ Nodes = <<>> /\ Leader = NilNode
    /\ Validators = <<>> /\ Stakes = EmptyMap
    /\ Delegates = <<>> /\ Voters = EmptyMap
    /\ clock = MaxClock /\ calls = <<>> /\ round = NoRound
    /\ commits = 0 /\ digits = NoDigits

\* bc.AddBlock(block): the Go method returns nothing
CallAddBlock ==
    /\ result = NoCall
    /\ Blocks' = ConsensusAddBlock(Blocks, args.block)
    /\ result' = [fn |-> "AddBlock", error |-> "none"]
    /\ UNCHANGED <<commits, digits, strategy, pc, Nodes, Leader, Validators, Stakes, Delegates,
                   Voters, clock, calls, round, args>>

NextAppend == CallAddBlock

SpecAppend == InitAppend /\ [][NextAppend]_vars

-----------------------------------------------------------------------------
(* Function-level specification: one evaluation of a threshold test, at each *)
(* of the four places the code has one, on any count of approvals out of any *)
(* number of nodes                                                           *)

QuorumSites ==
    {"pbft.BroadcastBlock", "raft.BroadcastBlock", "raft.RequestVote",
     "paxos.BroadcastProposal"}

SiteStrategy(site) ==
    CASE site = "pbft.BroadcastBlock" -> "pbft"
      [] site = "paxos.BroadcastProposal" -> "paxos"
      [] OTHER -> "raft"

\* the network NewPBFTNetwork / NewRaftNetwork / NewPaxosNetwork builds
ConsensusNetwork(size, now) ==
    CASE strategy = "pbft" -> pbft_NewPBFTNetwork(size, now)
      [] strategy = "raft" -> raft_NewRaftNetwork(size, now)
      [] OTHER -> paxos_NewPaxosNetwork(size, now)

\* the threshold test of the site
QuorumAt(site, approvals, totalNodes) ==
    CASE site = "pbft.BroadcastBlock" -> pbft_QuorumReached(approvals, totalNodes)
      [] site = "raft.BroadcastBlock" -> raft_QuorumReached(approvals, totalNodes)
      [] site = "raft.RequestVote" -> raft_Elected(approvals, totalNodes)
      [] OTHER -> paxos_QuorumReached(approvals, totalNodes)

InitQuorum ==
    /\ \E site \in QuorumSites, total \in 0..MaxQuorumTotal :
       \E approvals \in 0..total :
          /\ strategy = SiteStrategy(site)
          /\ args = [fn |-> site, approvals |-> approvals, total |-> total,
                     node |-> IF total = 0 THEN NilNode ELSE 1]
          /\ LET bc == ConsensusNetwork(total, TimeString(0))
             IN  Blocks = bc.Blocks /\ Nodes = bc.Nodes
    /\ pc = "ready"
    /\ result = NoCall
    /\ Leader = NilNode
    /\ Validators = <<>> /\ Stakes = EmptyMap
    /\ Delegates = <<>> /\ Voters = EmptyMap
    /\ clock = 0 /\ calls = <<>> /\ round = NoRound
    /\ commits = 0 /\ digits = NoDigits

\* the comparison on the loop's count and len(bc.Nodes), and what hangs on
\* it: a return, or in RequestVote on bc.Nodes[0] the taking of the role
CallQuorumReached ==
    /\ result = NoCall
    /\ result' = [fn |-> args.fn,
                  passed |-> QuorumAt(args.fn, args.approvals, args.total)]
    /\ IF args.fn = "raft.RequestVote"
       THEN LET r == raft_Decide(Nodes, Leader, args.node, args.approvals, args.total)
            IN  Nodes' = r.Nodes /\ Leader' = r.Leader
       ELSE UNCHANGED <<Nodes, Leader>>
    /\ UNCHANGED <<commits, digits, strategy, pc, Blocks, Validators, Stakes,
                   Delegates, Voters, clock, calls, round, args>>

NextQuorum == CallQuorumReached

SpecQuorum == InitQuorum /\ [][NextQuorum]_vars

-----------------------------------------------------------------------------
(* Function-level specification: on a dpos ledger with any vote table, one   *)
(* voter votes, votes again, and the votes are counted; or the table is      *)
(* counted as it stands                                                      *)

\* the vote tables: every map from some of the voters to the targets
VoteTables ==
    UNION {[voters -> DposTargets] : voters \in SUBSET TableVoters}

InitVote ==
    /\ strategy = "dpos"
    /\ pc = "ready"
    /\ LET bc == dpos_NewBlockchain(<<"Alice", "Bob">>, EmptyMap, TimeString(0))
       IN  Blocks = bc.Blocks /\ Delegates = bc.Delegates
    /\ Voters \in VoteTables
    /\ \E voter \in TableVoters, first \in DposTargets, second \in DposTargets :
          args = [fn |-> "Vote", table |-> Voters, voter |-> voter,
                  first |-> first, second |-> second]
    /\ result = NoCall
    /\ Nodes = <<>> /\ Leader = NilNode
    /\ Validators = <<>> /\ Stakes = EmptyMap
    /\ clock = 0 /\ calls = <<>> /\ round = NoRound
    /\ commits = 0 /\ digits = NoDigits

\* bc.Vote(voter, first)
CallVoteFirst ==
    /\ result = NoCall
    /\ Voters' = dpos_Vote(Voters, args.voter, args.first)
    /\ result' = [fn |-> "Vote", done |-> 1, afterFirst |-> Voters']
    /\ UNCHANGED <<commits, digits, strategy, pc, Blocks, Nodes, Leader, Validators, Stakes,
                   Delegates, clock, calls, round, args>>

\* bc.Vote(voter, second)
CallVoteSecond ==
    /\ result # NoCall /\ result.done = 1
    /\ Voters' = dpos_Vote(Voters, args.voter, args.second)
    /\ result' = [result EXCEPT !.done = 2]
    /\ UNCHANGED <<commits, digits, strategy, pc, Blocks, Nodes, Leader, Validators, Stakes,
                   Delegates, clock, calls, round, args>>

\* bc.CountVotes(), after the two votes or on the table as drawn
CallCountVotes ==
    /\ IF result = NoCall THEN TRUE ELSE result.done = 2
    /\ \E order \in dpos_Orders(Voters) :
          Delegates' = dpos_CountVotes(Voters, order)
    /\ result' = IF result = NoCall
                 THEN [fn |-> "CountVotes", done |-> 3, afterFirst |-> Voters]
                 ELSE [result EXCEPT !.done = 3]
    /\ UNCHANGED <<commits, digits, strategy, pc, Blocks, Nodes, Leader, Validators, Stakes,
                   Voters, clock, calls, round, args>>

NextVote ==
    \/ CallVoteFirst
    \/ CallVoteSecond
    \/ CallCountVotes

SpecVote == InitVote /\ [][NextVote]_vars

-----------------------------------------------------------------------------
(* Specification of a paxos network whose nodes are also called directly:    *)
(* bc.Nodes[i].Propose(data, id) stores in the node itself, so that rounds   *)
(* of RunPaxos meet nodes that recorded proposals. The network is built at   *)
(* the clock's last reading, so that every record carries that one time      *)

InitPaxosNetwork ==
    /\ strategy = "paxos"
    /\ \E size \in 1..MaxPaxosNodes :
          LET bc == paxos_NewPaxosNetwork(size, TimeString(MaxClock))
          IN  Constructed(bc) /\ Nodes = bc.Nodes
    /\ Leader = NilNode
    /\ Validators = <<>> /\ Stakes = EmptyMap
    /\ Delegates = <<>> /\ Voters = EmptyMap
    /\ clock = MaxClock /\ calls = <<>> /\ round = NoRound
    /\ commits = 0 /\ digits = NoDigits
    /\ args = NoCall /\ result = NoCall

\* the number of proposals stored in the nodes of the network
StoredProposals(nodes) ==
    Cardinality(UNION {{<<i, k>> : k \in DOMAIN nodes[i].Proposals} : i \in DOMAIN nodes})

\* bc.Nodes[i].Propose(data, proposalID), called before the rounds are run
Propose ==
    /\ pc = "ready"
    /\ strategy = "paxos"
    /\ calls = <<>>
    /\ \E i \in DOMAIN Nodes, data \in DataValues, proposalID \in 1..MaxProposalID :
          /\ StoredProposals(Nodes) < MaxProposals
          /\ Nodes' = [Nodes EXCEPT ![i] = paxos_Propose(Nodes[i], data, proposalID).node]
    /\ UNCHANGED <<commits, digits, strategy, pc, Blocks, Leader, Validators, Stakes, Delegates,
                   Voters, clock, calls, round, args, result>>

NextPaxos ==
    \/ Propose
    \/ RunPaxos

SpecPaxos == InitPaxosNetwork /\ [][NextPaxos]_vars

-----------------------------------------------------------------------------
(* Function-level specification: one call of Blockchain.BroadcastBlock(block) *)
(* of pbft or raft, on a network of any size whose ledger is genesis alone or *)
(* was extended once, with a candidate built on the tip, built on the tip     *)
(* before the extension, or altered after it was hashed                       *)

ConsensusVerifyBlock(blocks, block) ==
    IF strategy = "pbft" THEN pbft_VerifyBlock(blocks, block)
    ELSE raft_VerifyBlock(blocks, block)

ConsensusApprovals(blocks, nodes, block) ==
    IF strategy = "pbft" THEN pbft_Approvals(blocks, nodes, block)
    ELSE raft_Approvals(blocks, nodes, block)

ConsensusBroadcastBlock(blocks, nodes, block) ==
    IF strategy = "pbft" THEN pbft_BroadcastBlock(blocks, nodes, block)
    ELSE raft_BroadcastBlock(blocks, nodes, block)

\* the candidates NewBlock builds on the tip `prev`
BuiltOn(prev) ==
    {ConsensusNewBlock(d, prev.Hash, prev.Index + 1, TimeString(MaxClock)) : d \in DataValues}

\* the candidates handed to BroadcastBlock
VerifyCandidates(blocks) ==
    BuiltOn(Last(blocks)) \cup BuiltOn(blocks[1])
        \cup {[b EXCEPT !.Data = "tx9"] : b \in BuiltOn(Last(blocks))}

InitVerify ==
    /\ strategy \in {"pbft", "raft"}
    /\ pc = "ready"
    /\ Blocks \in AppendLedgers
    /\ \E size \in 1..MaxNodes :
          Nodes = ConsensusNetwork(size, TimeString(0)).Nodes
    /\ \E block \in VerifyCandidates(Blocks) :
          args = [fn |-> "BroadcastBlock", block |-> block]
    /\ result = NoCall
    /\ Leader = NilNode
    /\ Validators = <<>> /\ Stakes = EmptyMap
    /\ Delegates = <<>> /\ Voters = EmptyMap
    /\ clock = MaxClock /\ calls = <<>> /\ round = NoRound
    /\ commits = 0 /\ digits = NoDigits

\* bc.BroadcastBlock(block): each node's verdict, their count and the result
CallBroadcastBlock ==
    /\ result = NoCall
    /\ result' = [fn |-> "BroadcastBlock",
                  verdicts |-> [i \in DOMAIN Nodes |-> ConsensusVerifyBlock(Blocks, args.block)],
                  approvals |-> ConsensusApprovals(Blocks, Nodes, args.block),
                  passed |-> ConsensusBroadcastBlock(Blocks, Nodes, args.block)]
    /\ UNCHANGED <<commits, digits, strategy, pc, Blocks, Nodes, Leader, Validators, Stakes,
                   Delegates, Voters, clock, calls, round, args>>

NextVerify == CallBroadcastBlock

SpecVerify == InitVerify /\ [][NextVerify]_vars

-----------------------------------------------------------------------------
(* Function-level specification: pow.NewBlock(data, prevHash, index), or     *)
(* Block.MineBlock() on a block whose caller set Hash = CalculateHash() and  *)
(* MineBlock() once more on the block it left. Which of the candidate's      *)
(* digests begin with the target is fixed by SHA-256 before the call: every  *)
(* assignment over the nonces 0..MaxNonce is an initial state, and a call    *)
(* returns in the model when the loop ends within MaxNonce increments        *)

\* a hash to name as predecessor
SomeHash == pow_CalculateHash([Index |-> 0, Timestamp |-> TimeString(0),
                               Data |-> "Genesis Block", PrevHash |-> "", Nonce |-> 0])

\* the block literal NewBlock fills in: nonce 0, Hash left empty
Unmined ==
    {[Index |-> index, Timestamp |-> TimeString(t), Data |-> data, PrevHash |-> prevHash,
      Hash |-> "", Nonce |-> 0] :
        index \in 0..MaxCalls, t \in 0..MaxClock,
        data \in DataValues \cup {"Genesis Block"}, prevHash \in {"", SomeHash}}

InitMine ==
    /\ strategy = "pow"
    /\ pc = "ready"
    /\ Blocks = <<>>
    /\ \E b \in Unmined :
          /\ \/ args = [fn |-> "NewBlock", block |-> b]
             \/ args = [fn |-> "MineBlock", block |-> [b EXCEPT !.Hash = pow_CalculateHash(b)]]
          /\ digits \in [pow_Digests(b) -> BOOLEAN]
    /\ result = NoCall
    /\ Nodes = <<>> /\ Leader = NilNode
    /\ Validators = <<>> /\ Stakes = EmptyMap
    /\ Delegates = <<>> /\ Voters = EmptyMap
    /\ clock = MaxClock /\ calls = <<>> /\ round = NoRound
    /\ commits = 0

\* the outcome of a call that returned the block r or panicked
Returned(fn, done, r) ==
    IF IsPanic(r)
    THEN pc' = "panic" /\ result' = [fn |-> fn, done |-> done, panicked |-> TRUE]
    ELSE pc' = "ready" /\ result' = [fn |-> fn, done |-> done, panicked |-> FALSE, block |-> r]

\* NewBlock(data, prevHash, index)
CallNewBlock ==
    /\ pc = "ready" /\ result = NoCall /\ args.fn = "NewBlock"
    /\ LET r == pow_NewBlock(args.block.Data, args.block.PrevHash,
                             args.block.Index, args.block.Timestamp)
       IN  ~IsUnfinished(r) /\ Returned("NewBlock", 1, r)
    /\ UNCHANGED <<commits, digits, strategy, Blocks, Nodes, Leader, Validators, Stakes,
                   Delegates, Voters, clock, calls, round, args>>

\* block.MineBlock() on the prepared block
CallMineBlock ==
    /\ pc = "ready" /\ result = NoCall /\ args.fn = "MineBlock"
    /\ LET r == pow_MineBlock(args.block)
       IN  ~IsUnfinished(r) /\ Returned("MineBlock", 1, r)
    /\ UNCHANGED <<commits, digits, strategy, Blocks, Nodes, Leader, Validators, Stakes,
                   Delegates, Voters, clock, calls, round, args>>

\* block.MineBlock() once more
CallMineBlockAgain ==
    /\ pc = "ready" /\ result # NoCall /\ result.done = 1
    /\ LET r == pow_MineBlock(result.block)
       IN  /\ ~IsUnfinished(r)
           /\ IF IsPanic(r)
              THEN pc' = "panic" /\ result' = [result EXCEPT !.done = 2, !.panicked = TRUE]
              ELSE pc' = "ready" /\
                   result' = [fn |-> result.fn, done |-> 2, panicked |-> FALSE,
                              block |-> r, mined |-> result.block]
    /\ UNCHANGED <<commits, digits, strategy, Blocks, Nodes, Leader, Validators, Stakes,
                   Delegates, Voters, clock, calls, round, args>>

NextMine ==
    \/ CallNewBlock
    \/ CallMineBlock
    \/ CallMineBlockAgain

SpecMine == InitMine /\ [][NextMine]_vars

-----------------------------------------------------------------------------
(* Properties *)

\* every record after the first names the hash of the record before it
ChainLinked == \A i \in 2..Len(Blocks) : Blocks[i].PrevHash = Blocks[i - 1].Hash

\* the ledger holds genesis plus one record per completed call, in call order
OneRecordPerCall ==
    /\ Len(Blocks) = 1 + Len(calls)
    /\ \A i \in 1..Len(calls) : i + 1 <= Len(Blocks) => Blocks[i + 1].Data = calls[i].Data

\* the hash recomputed from a record's other fields, per package
Recomputed(b) ==
    CASE strategy = "pow" -> pow_CalculateHash(b)
      [] strategy = "pos" -> pos_CalculateHash(b)
      [] strategy = "dpos" -> dpos_CalculateHash(b)
      [] strategy = "pbft" -> pbft_CalculateHash(b)
      [] strategy = "raft" -> raft_CalculateHash(b)
      [] OTHER -> paxos_CalculateHash(b)

\* the ledger was extended by rounds alone, a node's CommitBlock or
\* CommitProposal never being called outside one
OnlyRounds == commits = 0

\* C1: in a pbft, raft or paxos network, after any sequence of rounds, every
\* record at position i > 0 has prevHash equal to the hash of the record at i-1.
C1_ConsensusChainIntegrity ==
    (strategy \in {"pbft", "raft", "paxos"} /\ OnlyRounds) => ChainLinked

\* C2: after k RunPBFT calls the pbft ledger holds exactly 1 + k records and the
\* last record's payload is the data of the last call.
C2_PBFTOneRecordPerRound ==
    (strategy = "pbft" /\ OnlyRounds) =>
        /\ pc = "ready"
        /\ Len(Blocks) = 1 + Len(calls)
        /\ calls # <<>> => Last(Blocks).Data = Last(calls).Data

\* C3: once a raft node is elected, k Lead calls on the leader leave the ledger
\* with exactly 1 + k records, the last carrying the data of the last call.
C3_RaftOneRecordPerLead ==
    (strategy = "raft" /\ pc = "ready" /\ OnlyRounds) =>
        /\ Len(Blocks) = 1 + Len(calls)
        /\ calls # <<>> => Last(Blocks).Data = Last(calls).Data

\* the proposal numbers of the calls made so far are strictly increasing
IncreasingProposals ==
    \A i, j \in 1..Len(calls) : i < j => calls[i].ProposalID < calls[j].ProposalID

\* C4: after k RunPaxos calls with distinct increasing proposal numbers the
\* ledger holds exactly 1 + k records with payloads in submission order.
C4_PaxosOneRecordPerProposal ==
    (strategy = "paxos" /\ IncreasingProposals /\ OnlyRounds) =>
        pc = "ready" /\ OneRecordPerCall

\* no raft election has succeeded yet
NoElectionYet == \A i \in DOMAIN Nodes : ~Nodes[i].IsLeader

\* C5: right after NewRaftNetwork(n) the Leader reference designates one of
\* the nodes, so that Leader.Lead(data) can be invoked without an election.
C5_RaftInitialLeader ==
    strategy = "raft" /\ NoElectionYet => Leader \in DOMAIN Nodes /\ pc = "ready"

\* C6: pow.NewBlockchain() returns a ledger holding exactly the genesis record,
\* and after k AddBlock calls it holds 1 + k records, the last with the last data.
C6_PoWLedgerGrowth ==
    strategy = "pow" =>
        /\ pc = "ready"
        /\ Len(Blocks) = 1 + Len(calls)
        /\ Blocks[1].Index = 0 /\ Blocks[1].PrevHash = ""
        /\ calls # <<>> => Last(Blocks).Data = Last(calls).Data

\* pos with a positive total stake, dpos with a non-empty delegate list
CanSelect ==
    \/ strategy = "pos" /\ pos_TotalStake(Stakes) > 0
    \/ strategy = "dpos" /\ Len(Delegates) > 0

\* a step of AddBlock taken where the proposer can be selected: it completes
\* and appends exactly one record, built on the old tip and carrying the data
C7_AddBlockStep ==
    (pc = "ready" /\ CanSelect /\ (calls' # calls \/ pc' = "panic")) =>
        /\ pc' = "ready"
        /\ Len(calls') = Len(calls) + 1
        /\ Len(Blocks') = Len(Blocks) + 1
        /\ SubSeq(Blocks', 1, Len(Blocks)) = Blocks
        /\ Last(Blocks').Data = Last(calls').Data
        /\ Last(Blocks').Index = Last(Blocks).Index + 1
        /\ Last(Blocks').PrevHash = Last(Blocks).Hash

\* C7: in pos (total stake > 0) and dpos (non-empty delegate list) each
\* AddBlock(data) appends exactly one record whose payload is data, whose index
\* is the old tip's index + 1 and whose prevHash is the old tip's hash; after k
\* calls the ledger has 1 + k records with payloads in call order.
C7_StakeAddBlockAppendsOne ==
    /\ [](strategy \in {"pos", "dpos"} => OneRecordPerCall)
    /\ [][C7_AddBlockStep]_vars

C7_Witness ==
    /\ strategy = "dpos" /\ pc = "ready"
    /\ Len(calls) >= 2 /\ Len(Blocks) >= 3
    /\ calls[1].Data # calls[2].Data

\* C8: in a pow, pos or dpos ledger, after any sequence of AddBlock, Vote and
\* CountVotes calls, every record at position i > 0 has prevHash equal to the
\* hash of the record at position i-1.
C8_StakeChainIntegrity ==
    strategy \in {"pow", "pos", "dpos"} => ChainLinked

C8_Witness ==
    /\ strategy = "dpos" /\ Len(Blocks) >= 3
    /\ DOMAIN Voters = VoterNames
    /\ Delegates = <<"Zed">>
    /\ Blocks[3].Delegate = "Zed"

\* C9: in every ledger of every strategy the record at position i has sequence
\* index i: indices start at 0, are contiguous, and no two records share one.
C9_SequenceIndexIsPosition ==
    \A i \in 1..Len(Blocks) : Blocks[i].Index = i - 1

\* C10: for every record in every strategy's ledger the stored hash equals the
\* hash recomputed from the record's other fields.
C10_HashDeterminism ==
    \A i \in 1..Len(Blocks) : Blocks[i].Hash = Recomputed(Blocks[i])

C10_Witness ==
    /\ strategy = "raft" /\ Len(Blocks) >= 3
    /\ Blocks[2].Timestamp # Last(Blocks).Timestamp

\* C11: every record in a pow ledger, genesis included, has a hash whose first
\* `difficulty` hex digits are all zero.
C11_PoWLeadingZeros ==
    strategy = "pow" =>
        /\ Blocks # <<>>
        /\ \A i \in 1..Len(Blocks) :
              /\ Len(Blocks[i].Hash) >= difficulty
              /\ ~pow_MissesTarget(Blocks[i].Hash)

\* the record does not extend the tip of the ledger
Mismatched(blocks, block) ==
    \/ block.PrevHash # Last(blocks).Hash
    \/ block.Index # Last(blocks).Index + 1

\* C12: appending a record whose prevHash differs from the tip's hash, or whose
\* index is not the tip's index + 1, is rejected with a chain-integrity error
\* and leaves the ledger exactly as it was.
C12_AppendRejectsMismatch ==
    (result # NoCall /\ result.fn = "AddBlock" /\ Mismatched(args.ledger, args.block)) =>
        /\ result.error = "ChainIntegrityError"
        /\ Blocks = args.ledger

\* a step that ran a round of RunPBFT, Lead or RunPaxos whose broadcast failed:
\* the round is over after the one attempt and the ledger is what it was
C13_FailedRoundStep ==
    (strategy \in {"pbft", "raft", "paxos"} /\ calls' # calls /\ ~round'.passed) =>
        /\ Blocks' = Blocks
        /\ Len(calls') = Len(calls) + 1
        /\ pc' = "ready"

\* C13: when the broadcast of a round does not meet its threshold (RunPBFT, Lead
\* or RunPaxos) no record is appended, nothing is retried, and the ledger after
\* the round is identical to the ledger before it.
C13_FailedRoundLeavesLedger == [][C13_FailedRoundStep]_vars

C13_Witness ==
    /\ strategy = "paxos" /\ pc = "ready"
    /\ Len(calls) = MaxCalls
    /\ round.ran /\ ~round.passed /\ round.total >= 2
    /\ Len(Blocks) = 1

\* a constructor that panicked returned no ledger at all
NoLedger == pc = "panic" /\ Blocks = <<>>

\* the ledger before the step is a prefix of the ledger after it
C14_AppendOnlyStep ==
    /\ Len(Blocks') >= Len(Blocks)
    /\ SubSeq(Blocks', 1, Len(Blocks)) = Blocks

\* C14: the ledger is append-only and final: across any operation of any
\* strategy the ledger before it is a prefix of the ledger after it, and the
\* ledger is never empty, record 0 being the genesis record with index 0 and
\* empty prevHash.
C14_AppendOnlyLedger ==
    /\ [][C14_AppendOnlyStep]_vars
    /\ [](~NoLedger => /\ Blocks # <<>>
                       /\ Blocks[1].Index = 0
                       /\ Blocks[1].PrevHash = ""
                       /\ Blocks[1].Data = "Genesis Block")

C14_Witness ==
    /\ strategy = "pbft" /\ Len(calls) = MaxCalls
    /\ Len(Blocks) >= 3
    /\ Blocks[1].Data = "Genesis Block" /\ Blocks[1].PrevHash = ""

\* the positions of the raft nodes that hold the leader role
Leaders == {i \in DOMAIN Nodes : Nodes[i].IsLeader}

\* C15: at every point of any sequence of RequestVote and Lead calls on a raft
\* network at most one node holds the leader role, and whenever a leader
\* exists the network's Leader reference designates that node.
C15_SingleLeader ==
    strategy = "raft" =>
        /\ Cardinality(Leaders) <= 1
        /\ \A i \in Leaders : Leader = i

\* a threshold test has been evaluated at one of the sites
Evaluated(sites) == result # NoCall /\ result.fn \in sites

\* C16: a pbft proposal is committed only if the approving participants are at
\* least two-thirds of all participants (3 * approvals >= 2 * total): 4 of 5 at
\* the least, and at least 2f + 1 of 3f + 1.
C16_PBFTTwoThirds ==
    (Evaluated({"pbft.BroadcastBlock"}) /\ result.passed) =>
        /\ 3 * args.approvals >= 2 * args.total
        /\ args.total = 5 => args.approvals >= 4
        /\ \A f \in 0..MaxQuorumTotal :
              args.total = 3 * f + 1 => args.approvals >= 2 * f + 1

\* floor(a / b) for a >= 0 and b > 0, from its defining inequalities
Floor(a, b) == CHOOSE q \in 0..a : b * q <= a /\ a < b * (q + 1)

MajoritySites == {"raft.BroadcastBlock", "raft.RequestVote", "paxos.BroadcastProposal"}

\* C17: the quorum decision is a function of approvals, total and policy alone:
\* the raft broadcast, the raft election and the paxos broadcast pass exactly
\* when approvals > floor(total / 2), so a tie on an even total fails; the pbft
\* broadcast passes exactly when approvals >= floor(2 * total / 3).
C17_QuorumDecision ==
    /\ Evaluated(MajoritySites) =>
          /\ result.passed <=> args.approvals > Floor(args.total, 2)
          /\ 2 * args.approvals = args.total => ~result.passed
    /\ Evaluated({"pbft.BroadcastBlock"}) =>
          (result.passed <=> args.approvals >= Floor(2 * args.total, 3))

C17_Witness ==
    /\ Evaluated({"raft.BroadcastBlock"})
    /\ args.total = 4 /\ args.approvals = 2
    /\ ~result.passed

\* the draws in [0, totalStake) on which SelectValidator returns participant p
\* when the stake map is walked in the given order
DrawsFor(p, order) ==
    {pick \in 0..(pos_TotalStake(Stakes) - 1) :
        pos_SelectValidator(Stakes, pick, order) = [validator |-> p]}

\* C18: for every pos stake table with non-negative stakes and total > 0, and
\* every enumeration order, the number of draws in [0, totalStake) on which
\* SelectValidator returns P equals P's stake; a participant with zero stake
\* is never selected and the empty identity is never returned.
C18_SelectionProportionalToStake ==
    (strategy = "pos" /\ pos_TotalStake(Stakes) > 0) =>
        /\ \A order \in Perms(DOMAIN Stakes) :
              /\ \A p \in DOMAIN Stakes :
                    Cardinality(DrawsFor(p, order)) = Stakes[p]
              /\ DrawsFor("", order) = {}
        /\ \A i \in 2..Len(Blocks) :
              /\ Blocks[i].Validator \in DOMAIN Stakes
              /\ Stakes[Blocks[i].Validator] > 0

C18_Witness ==
    /\ strategy = "pos"
    /\ Stakes["Alice"] = 0 /\ Stakes["Bob"] = MaxStake
    /\ Len(Blocks) = 3
    /\ Blocks[2].Validator = "Bob" /\ Blocks[3].Validator = "Bob"

\* C19: when the total pos stake is 0, proposer selection (and with it
\* AddBlock) ends in a no-stake error for that round: nothing is appended and
\* the ledger's owner goes on running.
C19_NoStakeOutcome ==
    (strategy = "pos" /\ pos_TotalStake(Stakes) = 0) =>
        /\ pc = "ready"
        /\ Len(Blocks) = 1

\* C20: pos proposer selection is a function of the stake table and the draw
\* alone: two selections with the same table and the same draw return the
\* same participant.
C20_SelectionDeterminedByDraw ==
    (strategy = "pos" /\ pos_TotalStake(Stakes) > 0) =>
        \A pick \in 0..(pos_TotalStake(Stakes) - 1) :
        \A first, second \in Perms(DOMAIN Stakes) :
            pos_SelectValidator(Stakes, pick, first) =
                pos_SelectValidator(Stakes, pick, second)

\* the elements of a sequence
Range(seq) == {seq[i] : i \in DOMAIN seq}

\* the voters other than v whose entry in the table is d
OthersFor(table, v, d) == {w \in DOMAIN table \ {v} : table[w] = d}

\* C21: dpos voting is last-write-wins: after Vote(v, d1) and then Vote(v, d2)
\* the vote table maps v to d2 only and every other voter's entry is
\* unchanged; a following CountVotes counts v once and for d2; repeating the
\* same Vote(v, d) leaves the vote table unchanged.
C21_VoteLastWriteWins ==
    (result # NoCall /\ result.fn = "Vote" /\ result.done >= 2) =>
        /\ DOMAIN Voters = DOMAIN args.table \cup {args.voter}
        /\ Voters[args.voter] = args.second
        /\ \A w \in DOMAIN args.table \ {args.voter} : Voters[w] = args.table[w]
        /\ args.first = args.second => Voters = result.afterFirst
        /\ result.done = 3 =>
              /\ dpos_Tally(Voters)[args.second] =
                    1 + Cardinality(OthersFor(args.table, args.voter, args.second))
              /\ args.second \in Range(Delegates)
              /\ (args.first # args.second
                    /\ OthersFor(args.table, args.voter, args.first) = {}) =>
                     args.first \notin Range(Delegates)

C21_Witness ==
    /\ result # NoCall /\ result.fn = "Vote" /\ result.done = 3
    /\ args.voter \in DOMAIN args.table
    /\ args.table[args.voter] # args.first
    /\ args.first # args.second
    /\ DOMAIN args.table = TableVoters
    /\ args.first \notin Range(Delegates)

\* the identities that hold at least one vote
Voted == {Voters[v] : v \in DOMAIN Voters}

\* the number of votes an identity holds
VotesFor(d) == Cardinality({v \in DOMAIN Voters : Voters[v] = d})

\* CountVotes has returned / is about to be called
Counted == result # NoCall /\ result.done = 3
CountPending == IF result = NoCall THEN TRUE ELSE result.done = 2

\* C22: after CountVotes the delegate list contains each identity that holds
\* at least one vote exactly once and nothing else (registered delegate or
\* not; listed delegates without votes are dropped), and every ordering of
\* that set is a possible result regardless of the vote counts.
C22_CountVotesListsVoted ==
    /\ Counted =>
          /\ Range(Delegates) = Voted
          /\ Len(Delegates) = Cardinality(Voted)
    /\ CountPending =>
          \A order \in Perms(Voted) : ENABLED (CallCountVotes /\ Delegates' = order)

C22_Witness ==
    /\ Counted
    /\ Delegates = <<"Zed", "Alice">>
    /\ VotesFor("Zed") = 1 /\ VotesFor("Alice") = 2

\* C23: CountVotes sorts the delegates by votes received: in the list it
\* produces, a delegate with more votes never comes after one with fewer.
C23_DelegatesSortedByVotes ==
    Counted =>
        \A i, j \in DOMAIN Delegates :
            i < j => VotesFor(Delegates[i]) >= VotesFor(Delegates[j])

\* the producers of the records at positions from..to of the ledger
Producers(from, to) == {Blocks[i].Delegate : i \in from..to}

\* C24: dpos block production is round-robin over the current delegate list:
\* with d >= 2 delegates no delegate produces two blocks in a row and each
\* produces exactly one block in any d consecutive calls. (With no vote cast
\* the list is still the constructor's, whatever calls were made.)
C24_RoundRobinProduction ==
    (strategy = "dpos" /\ Voters = EmptyMap /\ Len(Delegates) >= 2) =>
        /\ \A i \in 2..(Len(Blocks) - 1) : Blocks[i].Delegate # Blocks[i + 1].Delegate
        /\ \A i \in 2..(Len(Blocks) - Len(Delegates) + 1) :
              Producers(i, i + Len(Delegates) - 1) = Range(Delegates)

\* an AddBlock step of dpos: the new record's tag is in the list used
C25_AddBlockStep ==
    (strategy = "dpos" /\ calls' # calls) =>
        /\ Last(Blocks').Delegate \in Range(Delegates)
        /\ Range(Delegates) = Voted => Last(Blocks').Delegate \in Voted

\* C25 (as amended): every record appended by dpos AddBlock is tagged with a
\* member of the delegate list at the moment of the call; the producer holds
\* a current vote when that list is the count of the current votes.
C25_ProducerIsListedDelegate == [][C25_AddBlockStep]_vars

\* an AddBlock step on a list no constructor call of the model passes in,
\* that is, a list a CountVotes produced
C25_StepAfterCount ==
    (strategy = "dpos" /\ calls' # calls /\ Delegates \notin InitialDelegates) =>
        /\ Last(Blocks').Delegate \in Range(Delegates)
        /\ Last(Blocks').Delegate \in Voted

\* C25 (as stated): every record appended by dpos AddBlock is tagged with a
\* member of the delegate list at the moment of the call; after a CountVotes
\* no identity without a current vote produces a block.
C25_ProducerHoldsCurrentVote == [][C25_StepAfterCount]_vars

C25_Witness ==
    /\ strategy = "dpos" /\ calls # <<>>
    /\ Delegates = <<"Zed">>
    /\ Last(Blocks).Delegate = "Zed"
    /\ Voters # EmptyMap /\ "Zed" \notin Voted

\* Lead(data) on the node at position i, at any of the clock's later readings,
\* returns without having led and with the ledger it found
LeadIsNoOp(i) ==
    \A data \in DataValues, t \in clock..MaxClock :
        raft_Lead(Blocks, Nodes, i, data, TimeString(t)) = [Blocks |-> Blocks, led |-> FALSE]

\* a raft step: a call of Lead grows the ledger only with a leader present,
\* nothing else changes with it, and a node gains the role only by the
\* election that makes it the network's Leader
C26_RaftStep ==
    strategy = "raft" =>
        /\ (Blocks' # Blocks /\ commits' = commits) =>
              (Leaders # {} /\ Nodes' = Nodes /\ Leader' = Leader)
        /\ \A i \in DOMAIN Nodes :
              (~Nodes[i].IsLeader /\ Nodes'[i].IsLeader) => (Leader' = i /\ Blocks' = Blocks)

\* C26: Lead(data) on a raft node that does not hold the leader role appends
\* nothing and changes no state; only a node that has won a RequestVote can
\* extend the ledger through Lead.
C26_LeadNeedsLeaderRole ==
    /\ [](strategy = "raft" /\ pc = "ready" =>
            \A i \in DOMAIN Nodes : ~Nodes[i].IsLeader => LeadIsNoOp(i))
    /\ [][C26_RaftStep]_vars

C26_Witness ==
    /\ strategy = "raft" /\ pc = "ready"
    /\ Len(Nodes) >= 2
    /\ Leaders = {2}
    /\ Len(calls) = 1 /\ Len(Blocks) > 1

\* the ledgers a participant's own copy could hold after applying the round's
\* committed record once: the copy it had, plus one record with the round's
\* data built on the copy's tip
ReplicaAfter(copy, data) ==
    {ConsensusAddBlock(copy, ConsensusNewBlock(data, Last(copy).Hash, Last(copy).Index + 1,
                                               TimeString(t))) : t \in 0..MaxClock}

\* a round that committed, starting with the shared ledger equal to the
\* copies, ends with the shared ledger equal to the copies
C27_CommittedRoundStep ==
    (strategy \in {"pbft", "raft", "paxos"} /\ calls' # calls /\ round'.passed) =>
        Blocks' \in ReplicaAfter(Blocks, Last(calls').Data)

\* C27: the shared-ledger implementation is equivalent to per-participant
\* replicas: after any sequence of pbft, raft or paxos rounds the shared ledger
\* equals the ledger each participant would hold had it kept its own copy and
\* applied each committed record once (both start from the same genesis, rounds
\* that do not commit change neither, and each commit adds the one record).
C27_SharedEqualsReplicas ==
    /\ [][C27_CommittedRoundStep]_vars
    /\ [][(strategy \in {"pbft", "raft", "paxos"} /\ calls' # calls /\ ~round'.passed)
             => Blocks' = Blocks]_vars

\* C28: after RunPaxos(data, n) the first participant's proposal list, as
\* stored in the network, contains a proposal numbered n carrying data, so
\* that this participant accepts proposal n in the broadcast of that round.
C28_ProposerRecordsProposal ==
    (strategy = "paxos" /\ calls # <<>>) =>
        /\ \E k \in DOMAIN Nodes[1].Proposals :
              /\ Nodes[1].Proposals[k].ProposalID = Last(calls).ProposalID
              /\ Nodes[1].Proposals[k].Data = Last(calls).Data
        /\ round.approvals >= 1

\* the participants whose stored list holds a proposal with the number
Holders(proposalID) ==
    {j \in DOMAIN Nodes :
        \E k \in DOMAIN Nodes[j].Proposals : Nodes[j].Proposals[k].ProposalID = proposalID}

\* a round of RunPaxos: who accepted, and whether it could commit
C29_RoundStep ==
    (strategy = "paxos" /\ calls' # calls) =>
        /\ round'.approvals = Cardinality(Holders(Last(calls').ProposalID))
        /\ Blocks' # Blocks => 2 * round'.approvals > round'.total

\* C29: a paxos participant accepts a broadcast proposal exactly when its own
\* stored proposal list contains a proposal with the same number, and a round
\* commits only if more than half of all participants accept.
C29_AcceptByNumberAndMajority == [][C29_RoundStep]_vars

C29_Witness ==
    /\ strategy = "paxos" /\ calls # <<>>
    /\ round.total = 3 /\ round.approvals = 2 /\ round.passed
    /\ Len(Blocks) > 1
    /\ \E j \in DOMAIN Nodes : \E k \in DOMAIN Nodes[j].Proposals :
          /\ Nodes[j].Proposals[k].ProposalID = Last(calls).ProposalID
          /\ Nodes[j].Proposals[k].Data # Last(calls).Data

\* a round of RunPaxos that reached quorum adds one record with the data
C30_CommitStep ==
    (strategy = "paxos" /\ calls' # calls /\ round'.passed) =>
        /\ Len(Blocks') = Len(Blocks) + 1
        /\ Last(Blocks').Data = Last(calls').Data

\* C30: when a paxos broadcast reaches quorum in a network of n participants
\* the commit step adds exactly one record carrying proposal.data to the
\* shared ledger, independent of n.
C30_PaxosCommitAddsOne == [][C30_CommitStep]_vars

\* the payloads the node at position j recorded under the proposal number
RecordedUnder(j, proposalID) ==
    {Nodes[j].Proposals[k].Data :
        k \in {m \in DOMAIN Nodes[j].Proposals :
                 Nodes[j].Proposals[m].ProposalID = proposalID}}

\* a round of RunPaxos: every participant that accepts the proposal recorded
\* the proposal's data, and nothing else, under its number
C31_AcceptStep ==
    (strategy = "paxos" /\ calls' # calls) =>
        \A j \in Holders(Last(calls').ProposalID) :
            RecordedUnder(j, Last(calls').ProposalID) = {Last(calls').Data}

\* C31: no two paxos participants accept different values: whenever a
\* participant accepts a proposal, the proposal's data equals the data that
\* participant recorded under that proposal number, so one proposal number is
\* never accepted or committed with two different payloads.
C31_AcceptedDataMatchesRecorded == [][C31_AcceptStep]_vars

\* BroadcastBlock has returned
Broadcast == result # NoCall /\ result.fn = "BroadcastBlock"

\* the candidate names another hash than the tip's as its predecessor
StaleCandidate == args.block.PrevHash # Last(Blocks).Hash

\* C32: in pbft and raft a participant's verification of a candidate returns
\* true exactly when the candidate's prevHash equals the hash of the ledger's
\* current tip and its stored hash equals the hash recomputed from its fields;
\* a candidate built against a tip that has since been extended is rejected
\* by every participant and not committed by a broadcast.
C32_VerifyAgainstTip ==
    Broadcast =>
        /\ \A i \in DOMAIN Nodes :
              result.verdicts[i] <=>
                  (/\ args.block.PrevHash = Last(Blocks).Hash
                   /\ args.block.Hash = Recomputed(args.block))
        /\ StaleCandidate =>
              /\ \A i \in DOMAIN Nodes : ~result.verdicts[i]
              /\ ~result.passed

\* C38: within one pbft or raft broadcast all participants return the same
\* verdict, since they check the same candidate against the same shared tip:
\* the approval count is always either 0 or the number of participants.
C38_UnanimousVerdict ==
    Broadcast =>
        /\ \A i, j \in DOMAIN Nodes : result.verdicts[i] = result.verdicts[j]
        /\ result.approvals \in {0, Len(Nodes)}
        /\ result.approvals = Cardinality({i \in DOMAIN Nodes : result.verdicts[i]})

C38_Witness ==
    /\ Broadcast /\ strategy = "pbft"
    /\ Len(Nodes) = 3 /\ Len(Blocks) = 2
    /\ ~StaleCandidate
    /\ args.block.Data = "tx9"
    /\ result.approvals = 0

\* RequestVote on the node at position i succeeds and makes it the leader
WinsElection(i) ==
    LET r == raft_RequestVote(Nodes, Leader, i)
    IN  /\ r.result
        /\ r.Leader = i
        /\ r.Nodes[i].IsLeader

\* a raft step that changed a role or the Leader reference: an election won
C33_ElectionStep ==
    (strategy = "raft" /\ (Nodes' # Nodes \/ Leader' # Leader)) =>
        /\ Leader' \in DOMAIN Nodes
        /\ Nodes'[Leader'].IsLeader

\* C33: in a raft network of n >= 1 nodes, RequestVote invoked on any node at
\* any time succeeds and makes that node leader (IsLeader true, Leader set to
\* it), whichever leader already exists, because every participant grants its
\* vote unconditionally and n approvals exceed floor(n / 2).
C33_RequestVoteAlwaysWins ==
    /\ [](strategy = "raft" /\ pc = "ready" => \A i \in DOMAIN Nodes : WinsElection(i))
    /\ [][C33_ElectionStep]_vars

C33_Witness ==
    /\ strategy = "raft" /\ pc = "ready"
    /\ Len(Nodes) = MaxRaftNodes
    /\ Leaders = {1, 3}
    /\ Leader = 1

\* the hash of the candidate with the nonce set to n
HashWithNonce(b, n) == pow_CalculateHash([b EXCEPT !.Nonce = n])

\* the hash has `difficulty` leading zero hex digits
MeetsDifficulty(h) == Len(h) >= difficulty /\ ~pow_MissesTarget(h)

\* m is the candidate b mined: its nonce is the least one, from 0 up, whose
\* hash meets the difficulty, and its hash is that hash
LeastNonceMined(b, m) ==
    /\ m.Hash = HashWithNonce(b, m.Nonce)
    /\ MeetsDifficulty(m.Hash)
    /\ \A n \in 0..(m.Nonce - 1) : ~MeetsDifficulty(HashWithNonce(b, n))
    /\ [m EXCEPT !.Hash = "", !.Nonce = 0] = [b EXCEPT !.Hash = "", !.Nonce = 0]

\* C34: the nonce of a mined pow record is the smallest nonce, counting up
\* from 0, whose hash over the record's fields has `difficulty` leading zero
\* hex digits; the candidate with nonce 0 is itself hashed and tested before
\* any increment.
C34_LeastNonce ==
    (result # NoCall /\ result.fn = "NewBlock") =>
        /\ ~result.panicked
        /\ LeastNonceMined(args.block, result.block)

\* C35: pow mining is idempotent: running MineBlock again on an already mined
\* record leaves its nonce and its hash unchanged.
C35_MiningIdempotent ==
    (result # NoCall /\ result.done = 2) =>
        /\ ~result.panicked
        /\ result.block = result.mined

C35_Witness ==
    /\ result # NoCall /\ result.done = 2
    /\ ~result.panicked
    /\ result.mined.Nonce > 0
    /\ MeetsDifficulty(result.mined.Hash)
    /\ result.block.Nonce = result.mined.Nonce

\* C36: MineBlock never inspects the first `difficulty` characters of a hash
\* shorter than `difficulty`: on every path that reaches it (NewBlock for the
\* genesis record and for every added record) the record's hash has been
\* computed before the loop condition is first evaluated.
C36_HashComputedBeforeLoop ==
    /\ pc # "panic"
    /\ (result # NoCall /\ result.fn = "NewBlock") => Len(result.block.Hash) >= difficulty

\* C37: after any sequence of Vote, CountVotes and AddBlock calls on a dpos
\* ledger created with at least one delegate, the delegate list is non-empty,
\* so AddBlock can always select a producer.
C37_DelegatesNeverEmpty ==
    strategy = "dpos" =>
        /\ Len(Delegates) >= 1
        /\ pc = "ready"

\* the vote tables differ in the entry of one voter at most
OneEntryChanged(before, after) ==
    \E v \in DOMAIN after :
        /\ DOMAIN after = DOMAIN before \cup {v}
        /\ \A w \in DOMAIN before \ {v} : after[w] = before[w]

\* a dpos step changes one part of the state: the vote table (in one voter's
\* entry), the delegate list, or the ledger (by appending)
C39_DPoSStep ==
    strategy = "dpos" =>
        /\ Voters' # Voters =>
              (OneEntryChanged(Voters, Voters') /\ Blocks' = Blocks /\ Delegates' = Delegates)
        /\ Delegates' # Delegates => (Blocks' = Blocks /\ Voters' = Voters)
        /\ Blocks' # Blocks => (Voters' = Voters /\ Delegates' = Delegates)

\* C39: each dpos operation changes only its own part of the state: Vote only
\* the named voter's entry of the vote table, CountVotes only the delegate
\* list, AddBlock only the ledger.
C39_DPoSFrames == [][C39_DPoSStep]_vars

C39_Witness ==
    /\ strategy = "dpos" /\ pc = "ready"
    /\ DOMAIN Voters = VoterNames
    /\ Voters["Voter1"] = "Zed" /\ Voters["Voter2"] = "Bob"
    /\ Delegates = <<"Bob", "Zed">>
    /\ Len(Blocks) = 3

====
